---- MODULE Spec2Model ----
(***************************************************************************)
(* A model of src/src/spotify_client.py (SpotifyClient): the response      *)
(* parsing layer (the _parse_ methods), the paginated get_playlist and the *)
(* two optional fetches get_profile / get_account_attributes.              *)
(*                                                                         *)
(* Encoding of Python values:                                              *)
(*   dict          a function with a string domain (a record); {} is <<>>  *)
(*   list          a sequence                                              *)
(*   str           a sequence of tokens, ":" being a token of its own, so  *)
(*                 that str.split(":") is computed, not assumed            *)
(*   Optional[T]   <<>> for None, <<v>> for a value v                      *)
(*   a call        Ok(v) when it returns v, KeyError(k) / Raise(e) when it *)
(*                 raises                                                  *)
(***************************************************************************)
EXTENDS Integers, Sequences, FiniteSets, TLC

VARIABLES
    pc,             \* position of the one call in progress
    op,             \* the method that was called
    arg,            \* the argument of a parsing call
    playlist_id,    \* get_playlist's parameter
    offset,         \* get_playlist's local offset
    all_items,      \* get_playlist's local accumulator
    playlist_data,  \* get_playlist's local: playlistV2 of the last response
    result,         \* what the call returned or raised
    server,         \* the remote service the transport talks to
    requests,       \* log of the requests handed to _make_request, in order
    outstanding,    \* requests sent and not yet answered
    nresponses,     \* responses (or transport failures) received
    received,       \* how the last _make_request ended, and the body it returned
    arrived,        \* log of the raw items the server sent, in arrival order
    first_total,    \* totalCount as read from the first 2xx body, once there is one
    main_tracks,    \* main's tracks: the playlist items to clean
    podcasts,       \* main's podcasts: the episodes to insert
    cursor,         \* items of tracks the cleaning loop has gone through
    clean_playlist, \* main's clean_playlist
    podcast_idx,    \* main's podcast_idx
    idx,            \* main's idx: podcasts the enumerate loop has gone through
    replace_items   \* the list handed to sp.playlist_replace_items, once it is

vars == <<pc, op, arg, playlist_id, offset, all_items, playlist_data, result,
          server, requests, outstanding, nresponses, received, arrived,
          first_total, main_tracks, podcasts, cursor, clean_playlist, podcast_idx, idx,
          replace_items>>

\* the locals of main in the update scripts
scriptVars == <<main_tracks, podcasts, cursor, clean_playlist, podcast_idx, idx,
                replace_items>>

\* the state of a call on the client, its transport and the remote service
clientVars == <<arg, playlist_id, offset, all_items, playlist_data, result, server,
                requests, outstanding, nresponses, received, arrived, first_total>>

----------------------------------------------------------------------------
(* Bounds of the model *)

MaxTotal == 120     \* largest totalCount of the well-behaved (paged) server
MaxItems == 2       \* most items an arbitrary server sends during one call
MaxCount == 3       \* largest totalCount an arbitrary server reports
MaxRequests == 3    \* page requests explored per call (the code has no cap)
MaxImages == 3      \* longest list of image descriptors handed to _parse_images
MaxTracks == 16     \* longest list of playlist items main cleans
MaxPodcasts == 4    \* most episodes main inserts

----------------------------------------------------------------------------
(* Python values *)

EmptyDict == <<>>
EmptyStr == <<>>
None == <<>>
Some(v) == <<v>>

Has(d, k) == k \in DOMAIN d

\* dict.get(k, default)
Get(d, k, default) == IF Has(d, k) THEN d[k] ELSE default

\* dict.get(k): None when the key is missing
GetOpt(d, k) == IF Has(d, k) THEN Some(d[k]) ELSE None

\* a dict entry that may be missing: opt is {} or {v}
Field(k, opt) == IF opt = {} THEN EmptyDict ELSE k :> (CHOOSE v \in opt : TRUE)

Ok(v) == [ok |-> TRUE, val |-> v]
KeyError(k) == [ok |-> FALSE, exc |-> "KeyError", key |-> k]
Raise(e) == [ok |-> FALSE, exc |-> e, key |-> ""]

\* str.split(":")
\* the segments of c + s, given the segments of s
SplitCons(c, rest) ==
    IF c = ":" THEN << <<>> >> \o rest
    ELSE << <<c>> \o Head(rest) >> \o Tail(rest)

RECURSIVE Split(_)
Split(s) == IF s = <<>> THEN << <<>> >> ELSE SplitCons(Head(s), Split(Tail(s)))

\* seq[-1]
Last(seq) == seq[Len(seq)]

\* uri.split(":")[-1]
LastId(uri) == Last(Split(uri))

\* a comprehension [f(x) for x in xs], given the outcome of each f(x) in
\* order: the first one that raises ends it
Collect(rs) ==
    LET bad == {i \in 1..Len(rs) : ~rs[i].ok}
    IN  IF bad = {} THEN Ok([i \in 1..Len(rs) |-> rs[i].val])
        ELSE rs[CHOOSE i \in bad : \A j \in bad : i <= j]

----------------------------------------------------------------------------
(* Field extractors *)

ParseExternalUrls(uri, entity_type) ==
    << [url |-> <<"https://open.spotify.com/", entity_type, "/">> \o LastId(uri)] >>

\* sources = img.get("sources", [])
SourcesOf(img) == Get(img, "sources", <<>>)

\* if sources:
HasSources(img) == SourcesOf(img) /= <<>>

\* Image(url=source.get("url"), height=..., width=...)
ImageOf(source) ==
    [url |-> GetOpt(source, "url"),
     height |-> GetOpt(source, "height"),
     width |-> GetOpt(source, "width")]

\* the last source taken instead of the first
FirstSourceImage_last(img) == ImageOf(Last(SourcesOf(img)))

\* the Image a descriptor with sources contributes: its sources[0]
FirstSourceImage(img) == ImageOf(SourcesOf(img)[1])

\* the images of the descriptors that passed the test, in order
ImagesOf(kept) == [i \in 1..Len(kept) |-> FirstSourceImage(kept[i])]

ParseImages(image_data) == ImagesOf(SelectSeq(image_data, HasSources))

\* the artist read with .get and defaults, as _parse_owner reads an owner
ParseArtist_lenient(artist_data) ==
    Ok([id |-> LastId(Get(artist_data, "uri", EmptyStr)),
        name |-> Get(Get(artist_data, "profile", EmptyDict), "name", EmptyStr),
        uri |-> Get(artist_data, "uri", EmptyStr),
        external_urls |-> ParseExternalUrls(Get(artist_data, "uri", EmptyStr), "artist")])

ParseArtist(artist_data) ==
    IF ~Has(artist_data, "uri") THEN KeyError("uri")
    ELSE IF ~Has(artist_data, "profile") THEN KeyError("profile")
    ELSE IF ~Has(artist_data["profile"], "name") THEN KeyError("name")
    ELSE Ok([id |-> LastId(artist_data["uri"]),
             name |-> artist_data["profile"]["name"],
             uri |-> artist_data["uri"],
             external_urls |-> ParseExternalUrls(artist_data["uri"], "artist")])

\* [self._parse_artist(artist) for artist in items]
ParseArtists(items) == Collect([i \in 1..Len(items) |-> ParseArtist(items[i])])

\* images=self._parse_images(album_data["coverArt"]["sources"])
AlbumImages(album_data) == ParseImages(album_data["coverArt"]["sources"])

\* the Album, given the outcome of the artists comprehension
AlbumOf(album_data, artists) ==
    IF ~artists.ok THEN artists
    ELSE IF ~Has(album_data, "coverArt") THEN KeyError("coverArt")
    ELSE IF ~Has(album_data["coverArt"], "sources") THEN KeyError("sources")
    ELSE Ok([id |-> LastId(album_data["uri"]),
             name |-> album_data["name"],
             uri |-> album_data["uri"],
             external_urls |-> ParseExternalUrls(album_data["uri"], "album"),
             artists |-> artists.val,
             images |-> AlbumImages(album_data)])

ParseAlbum(album_data) ==
    IF ~Has(album_data, "uri") THEN KeyError("uri")
    ELSE IF ~Has(album_data, "name") THEN KeyError("name")
    ELSE IF ~Has(album_data, "artists") THEN KeyError("artists")
    ELSE IF ~Has(album_data["artists"], "items") THEN KeyError("items")
    ELSE AlbumOf(album_data, ParseArtists(album_data["artists"]["items"]))

\* the two duration keys tested in the other order
TrackDuration_episodeFirst(track_data) ==
    IF Has(track_data, "episodeDuration")
    THEN IF Has(track_data["episodeDuration"], "totalMilliseconds")
         THEN Ok(track_data["episodeDuration"]["totalMilliseconds"])
         ELSE KeyError("totalMilliseconds")
    ELSE IF ~Has(track_data, "trackDuration") THEN KeyError("trackDuration")
    ELSE IF Has(track_data["trackDuration"], "totalMilliseconds")
         THEN Ok(track_data["trackDuration"]["totalMilliseconds"])
         ELSE KeyError("totalMilliseconds")

\* the duration expression of _parse_track
TrackDuration(track_data) ==
    IF Has(track_data, "trackDuration")
    THEN IF Has(track_data["trackDuration"], "totalMilliseconds")
         THEN Ok(track_data["trackDuration"]["totalMilliseconds"])
         ELSE KeyError("totalMilliseconds")
    ELSE IF ~Has(track_data, "episodeDuration") THEN KeyError("episodeDuration")
    ELSE IF Has(track_data["episodeDuration"], "totalMilliseconds")
         THEN Ok(track_data["episodeDuration"]["totalMilliseconds"])
         ELSE KeyError("totalMilliseconds")

\* an outcome as the outcome of an Optional
Opt(r) == IF r.ok THEN Ok(Some(r.val)) ELSE r

\* the album expression of _parse_track
TrackAlbum(track_data) ==
    IF Has(track_data, "albumOfTrack")
    THEN Opt(ParseAlbum(track_data["albumOfTrack"]))
    ELSE Ok(None)

\* the artists expression of _parse_track
TrackArtists(track_data) ==
    IF Has(track_data, "artists")
    THEN IF Has(track_data["artists"], "items")
         THEN ParseArtists(track_data["artists"]["items"])
         ELSE KeyError("items")
    ELSE Ok(<<>>)

\* the Track, given the outcomes of its duration, album and artists
\* expressions (evaluated in that order)
TrackOf(track_data, duration, album, artists) ==
    IF ~duration.ok THEN duration
    ELSE IF ~album.ok THEN album
    ELSE IF ~artists.ok THEN artists
    ELSE Ok([id |-> LastId(track_data["uri"]),
             name |-> track_data["name"],
             uri |-> track_data["uri"],
             external_urls |-> ParseExternalUrls(track_data["uri"], "track"),
             duration_ms |-> duration.val,
             explicit |-> Get(track_data, "explicit", FALSE),
             album |-> album.val,
             artists |-> artists.val])

ParseTrack(track_data) ==
    IF ~Has(track_data, "uri") THEN KeyError("uri")
    ELSE IF ~Has(track_data, "name") THEN KeyError("name")
    ELSE TrackOf(track_data, TrackDuration(track_data), TrackAlbum(track_data),
                 TrackArtists(track_data))

ParseOwner(owner_data) ==
    IF owner_data = EmptyDict THEN None
    ELSE Some([id |-> LastId(Get(owner_data, "uri", EmptyStr)),
               name |-> Get(owner_data, "name", EmptyStr),
               uri |-> Get(owner_data, "uri", EmptyStr),
               external_urls |-> ParseExternalUrls(Get(owner_data, "uri", EmptyStr), "user")])

----------------------------------------------------------------------------
(* get_playlist: the code that runs between two transport round trips *)

limit == 50

\* playlist_data = data.get("data", {}).get("playlistV2", {})
PlaylistV2Of(data) == Get(Get(data, "data", EmptyDict), "playlistV2", EmptyDict)

\* content = playlist_data.get("content", {})
ContentOf(pd) == Get(pd, "content", EmptyDict)

\* items = content.get("items", [])
ItemsOf(content) == Get(content, "items", <<>>)

\* the new page put in front of the accumulator
Extend_front(acc, items) == items \o acc

\* all_items.extend(items)
Extend(acc, items) == acc \o items

\* the break test with > for >=
\* the bound is the one the first page reported
LoopDone_firstTotal(count, content) ==
    count >= (IF first_total = None THEN Get(content, "totalCount", 0)
              ELSE first_total[1])

LoopDone_strict(count, content) == count > Get(content, "totalCount", 0)

\* the break test of the while loop: len(all_items) >= content.get("totalCount", 0)
LoopDone(count, content) == count >= Get(content, "totalCount", 0)

\* offset advanced by the page size less one
NextOffset_short(o) == o + limit - 1

\* offset += limit
NextOffset(o) == o + limit

\* the query of one page request (the variables of the persisted query)
PageRequest(id, o) ==
    [operationName |-> "fetchPlaylist",
     variables |-> [uri |-> <<"spotify", ":", "playlist", ":">> \o id,
                    offset |-> o,
                    limit |-> limit]]

\* self._parse_track(item["itemV2"]["data"])
ParseItemTrack(item) ==
    IF ~Has(item, "itemV2") THEN KeyError("itemV2")
    ELSE IF ~Has(item["itemV2"], "data") THEN KeyError("data")
    ELSE ParseTrack(item["itemV2"]["data"])

\* [self._parse_track(item["itemV2"]["data"]) for item in all_items]
ParseTracks(items) == Collect([i \in 1..Len(items) |-> ParseItemTrack(items[i])])

\* one PlaylistTrack of the final comprehension
PlaylistTrack(item, track) ==
    [added_at |-> Get(Get(item, "addedAt", EmptyDict), "isoString", EmptyStr),
     added_by |-> None,
     is_local |-> FALSE,
     track |-> track]

\* zip(all_items, tracks)
ZipTracks(items, tracks) ==
    [i \in 1..(IF Len(items) < Len(tracks) THEN Len(items) ELSE Len(tracks)) |->
        PlaylistTrack(items[i], tracks[i])]

\* the id and uri the returned Playlist is built with
PlaylistIdentity(id, pd) == [id |-> id, uri |-> Get(pd, "uri", EmptyStr)]

\* images = self._parse_images(playlist_data.get("images", {}).get("items", []))
PlaylistImages(pd) == ParseImages(Get(Get(pd, "images", EmptyDict), "items", <<>>))

\* owner = self._parse_owner(playlist_data.get("ownerV2", {}).get("data", {}))
PlaylistOwner(pd) == ParseOwner(Get(Get(pd, "ownerV2", EmptyDict), "data", EmptyDict))

\* what get_playlist ends with, given the outcome of the tracks comprehension
PlaylistOf(id, pd, items, tracks) ==
    IF ~tracks.ok THEN tracks
    ELSE Ok([id |-> PlaylistIdentity(id, pd).id,
             name |-> Get(pd, "name", EmptyStr),
             uri |-> PlaylistIdentity(id, pd).uri,
             external_urls |-> ParseExternalUrls(id, "playlist"),
             description |-> Get(pd, "description", EmptyStr),
             public |-> GetOpt(pd, "public"),
             collaborative |-> GetOpt(pd, "collaborative"),
             followers |-> Get(pd, "followers", 0),
             images |-> PlaylistImages(pd),
             owner |-> PlaylistOwner(pd),
             tracks |-> ZipTracks(items, tracks.val)])

\* everything after the while loop
BuildPlaylist(id, pd, items) == PlaylistOf(id, pd, items, ParseTracks(items))

----------------------------------------------------------------------------
(* get_profile and get_account_attributes: the body of the try block and the
   except clause *)

\* the query of one of the two optional fetches: json.dumps({}) as variables
PlainRequest(name) == [operationName |-> name, variables |-> EmptyDict]

\* `not v` for a str, list, dict or None
Falsy(v) == v = <<>>

\* response.get("data", {}).get("me", {})
MeOf(response) == Get(Get(response, "data", EmptyDict), "me", EmptyDict)

ProfileOf(profile_data) ==
    [avatar |-> GetOpt(profile_data, "avatar"),
     avatar_background_color |-> GetOpt(profile_data, "avatarBackgroundColor"),
     name |-> Get(profile_data, "name", EmptyStr),
     uri |-> Get(profile_data, "uri", EmptyStr),
     username |-> Get(profile_data, "username", EmptyStr)]

\* the try block of get_profile after _make_request returned
TryProfile(profile_data) ==
    IF Falsy(profile_data) THEN Raise("ValueError") ELSE Ok(ProfileOf(profile_data))

AccountOf(account_data, attributes) ==
    [catalogue |-> Get(attributes, "catalogue", EmptyStr),
     dsa_mode_available |-> Get(attributes, "dsaModeAvailable", FALSE),
     dsa_mode_enabled |-> Get(attributes, "dsaModeEnabled", FALSE),
     multi_user_plan_current_size |-> GetOpt(attributes, "multiUserPlanCurrentSize"),
     multi_user_plan_member_type |-> GetOpt(attributes, "multiUserPlanMemberType"),
     on_demand |-> Get(attributes, "onDemand", FALSE),
     opt_in_trial_premium_only_market |-> Get(attributes, "optInTrialPremiumOnlyMarket", FALSE),
     country |-> Get(account_data, "country", EmptyStr),
     product |-> Get(account_data, "product", EmptyStr)]

\* the try block of get_account_attributes after _make_request returned
TryAccount(account_data, attributes) ==
    IF \/ Falsy(attributes)
       \/ Falsy(Get(account_data, "country", None))
       \/ Falsy(Get(account_data, "product", None))
    THEN Raise("ValueError")
    ELSE Ok(AccountOf(account_data, attributes))

\* the except clause left out: the exception leaves the method
OrNone_uncaught(r) == IF r.ok THEN Ok(Some(r.val)) ELSE r

\* try: return <value> / except Exception: print(...); return None
OrNone(r) == IF r.ok THEN Ok(Some(r.val)) ELSE Ok(None)

----------------------------------------------------------------------------
(* The remote service: what the transport can hand back *)

Without(d, k) == [x \in DOMAIN d \ {k} |-> d[x]]

With(d, k, v) == (k :> v) @@ d

SeqsUpTo(S, n) == UNION {[1..m -> S] : m \in 0..n}

Uri(type, id) == <<"spotify", ":", type, ":", id>>

GoodArtist == [uri |-> Uri("artist", "r"), profile |-> [name |-> <<"R">>]]

GoodSource == [url |-> <<"https://i.scdn.co/image/1">>, height |-> 64, width |-> 64]

OtherSource == [url |-> <<"https://i.scdn.co/image/2">>, height |-> 300, width |-> 300]

GoodAlbum ==
    [uri |-> Uri("album", "l"),
     name |-> <<"L">>,
     artists |-> [items |-> <<GoodArtist>>],
     coverArt |-> [sources |-> <<GoodSource>>]]

MusicTrack ==
    [uri |-> Uri("track", "a"),
     name |-> <<"A">>,
     trackDuration |-> [totalMilliseconds |-> 1000],
     albumOfTrack |-> GoodAlbum,
     artists |-> [items |-> <<GoodArtist>>]]

Episode ==
    [uri |-> Uri("episode", "b"),
     name |-> <<"B">>,
     episodeDuration |-> [totalMilliseconds |-> 5000]]

RawItem(data, added) == [itemV2 |-> [data |-> data], addedAt |-> [isoString |-> added]]

\* raw items a server may put on a page: two sound ones, then items that
\* lack a required field at the depth of the item, the track and the artist
RawItems ==
    { RawItem(MusicTrack, <<"2024-01-01">>),
      RawItem(Episode, <<"2024-01-02">>),
      [itemV2 |-> EmptyDict],
      RawItem(Without(MusicTrack, "uri"), <<"2024-01-04">>),
      RawItem(With(MusicTrack, "artists", [items |-> <<Without(GoodArtist, "profile")>>]),
              <<"2024-01-07">>) }

\* item number i (from 0) of the playlist the paged server holds
PagedItem(i) ==
    RawItem([uri |-> Uri("track", ToString(i)),
             name |-> <<"T">>,
             trackDuration |-> [totalMilliseconds |-> 1000]],
            <<ToString(i)>>)

\* the page a well-behaved server serves: items o .. min(o + l, total) - 1
PagedPage(o, l, total) ==
    LET hi == IF o + l < total THEN o + l ELSE total
    IN  [i \in 1..(IF hi > o THEN hi - o ELSE 0) |-> PagedItem(o + i - 1)]

\* playlistV2 without its content
PlaylistMetas(id) ==
    { [name |-> <<"Daily Drive">>,
       uri |-> Uri("playlist", id[1]),
       description |-> <<"d">>,
       followers |-> 7,
       public |-> TRUE,
       images |-> [items |-> << [sources |-> <<GoodSource, OtherSource>>],
                               [sources |-> <<>>] >>],
       ownerV2 |-> [data |-> [uri |-> Uri("user", "spotify"), name |-> <<"Spotify">>]]],
      [name |-> <<"Other">>,
       uri |-> Uri("playlist", "other"),
       ownerV2 |-> [data |-> [name |-> <<"A">>]]],
      EmptyDict }

PlaylistIds == { <<"37i9dQZF1EfJpoXPziNMRg">> }

Servers(id) ==
    {[mode |-> "paged", total |-> t, meta |-> m] :
        t \in 1..MaxTotal, m \in {mm \in PlaylistMetas(id) : Has(mm, "followers")}}
    \cup {[mode |-> "arbitrary", total |-> 0, meta |-> m] : m \in PlaylistMetas(id)}

PlaylistBody(meta, content) == [data |-> [playlistV2 |-> meta @@ [content |-> content]]]

\* the response of the well-behaved server to a request with variables v
PagedBody(srv, v) ==
    PlaylistBody(srv.meta, [items |-> PagedPage(v.offset, v.limit, srv.total),
                            totalCount |-> srv.total])

\* response bodies of an arbitrary server that has room for n more items
ArbitraryBodies(meta, n) ==
    {PlaylistBody(meta, Field("items", its) @@ Field("totalCount", tc)) :
        its \in {{}} \cup {{page} : page \in SeqsUpTo(RawItems, n)},
        tc \in {{}} \cup {{c} : c \in 0..MaxCount}}
    \cup {[data |-> EmptyDict], EmptyDict}

SentItems(body) == ItemsOf(ContentOf(PlaylistV2Of(body)))

\* uris in every shape split(":") distinguishes
UriShapes(type) ==
    { Uri(type, "x"), <<"x">>, <<"spotify", ":", type, ":">>, <<":">>, EmptyStr }

ArtistPayloads ==
    {Field("uri", u) @@ Field("profile", pr) :
        u \in {{}} \cup {{x} : x \in UriShapes("artist")},
        pr \in {{}, {EmptyDict}, {[name |-> <<"R">>]}}}

OwnerPayloads ==
    {Field("uri", u) @@ Field("name", n) :
        u \in {{}} \cup {{x} : x \in UriShapes("user")},
        n \in {{}, {<<"A">>}}}

ImageDescriptors ==
    { [sources |-> <<GoodSource>>],
      [sources |-> <<OtherSource, GoodSource>>],
      [sources |-> << [url |-> <<"https://i.scdn.co/image/3">>] >>],
      [sources |-> <<>>],
      EmptyDict }

AlbumPayloads ==
    {Field("uri", u) @@ Field("name", n) @@ Field("artists", ar) @@ Field("coverArt", c) :
        u \in {{}, {Uri("album", "l")}, {<<"l">>}},
        n \in {{}, {<<"L">>}},
        ar \in {{}, {EmptyDict}, {[items |-> <<>>]}, {[items |-> <<GoodArtist>>]},
                {[items |-> <<GoodArtist, Without(GoodArtist, "profile")>>]}},
        c \in {{}, {EmptyDict}, {[sources |-> <<>>]},
               {[sources |-> <<GoodSource, OtherSource>>]},
               {[sources |-> << [sources |-> <<OtherSource>>] >>]}}}

TrackPayloads ==
    {Field("uri", u) @@ Field("name", n) @@ Field("trackDuration", td)
        @@ Field("episodeDuration", ed) @@ Field("albumOfTrack", al)
        @@ Field("artists", ar) @@ Field("explicit", ex) :
        u \in {{}, {Uri("track", "a")}, {<<"a">>}},
        n \in {{}, {<<"A">>}},
        td \in {{}, {EmptyDict}, {[totalMilliseconds |-> 1000]}},
        ed \in {{}, {EmptyDict}, {[totalMilliseconds |-> 5000]}},
        al \in {{}, {GoodAlbum}, {Without(GoodAlbum, "coverArt")}},
        ar \in {{}, {EmptyDict}, {[items |-> <<>>]}, {[items |-> <<GoodArtist>>]}},
        ex \in {{}, {TRUE}}}

\* a dict with any subset of the given entries
SubDicts(d) == {[k \in ks |-> d[k]] : ks \in SUBSET DOMAIN d}

FullProfile ==
    [avatar |-> <<"https://i.scdn.co/image/a">>,
     avatarBackgroundColor |-> <<"#fff">>,
     name |-> <<"Fil">>,
     uri |-> Uri("user", "fil"),
     username |-> <<"fil">>]

\* response bodies to profileAttributes
ProfileBodies ==
    {EmptyDict, [data |-> EmptyDict], [data |-> [me |-> EmptyDict]]}
    \cup {[data |-> [me |-> [profile |-> p]]] : p \in SubDicts(FullProfile)}

FullAttributes ==
    [catalogue |-> <<"premium">>, onDemand |-> TRUE, multiUserPlanCurrentSize |-> 2]

\* response bodies to accountAttributes
AccountBodies ==
    {EmptyDict, [data |-> EmptyDict], [data |-> [me |-> EmptyDict]]}
    \cup {[data |-> [me |-> [account |->
              Field("attributes", a) @@ Field("country", c) @@ Field("product", pr)]]] :
            a \in {{}} \cup {{x} : x \in SubDicts(FullAttributes)},
            c \in {{}, {EmptyStr}, {<<"IT">>}},
            pr \in {{}, {EmptyStr}, {<<"premium">>}}}

----------------------------------------------------------------------------
(* The calls *)

NoResult == [ok |-> FALSE, exc |-> "", key |-> ""]

Init ==
    /\ pc = "idle"
    /\ op = "none"
    /\ arg = EmptyDict
    /\ playlist_id = EmptyStr
    /\ offset = 0
    /\ all_items = <<>>
    /\ playlist_data = EmptyDict
    /\ result = NoResult
    /\ server = [mode |-> "none", total |-> 0, meta |-> EmptyDict]
    /\ requests = <<>>
    /\ outstanding = 0
    /\ nresponses = 0
    /\ received = [status |-> "none", body |-> EmptyDict]
    /\ arrived = <<>>
    /\ first_total = None
    /\ main_tracks = <<>>
    /\ podcasts = <<>>
    /\ cursor = 0
    /\ clean_playlist = <<>>
    /\ podcast_idx = 0
    /\ idx = 0
    /\ replace_items = None

\* get_playlist is entered: limit = 50, offset = 0, all_items = []
GetPlaylistCall ==
    /\ pc = "idle"
    /\ \E id \in PlaylistIds :
         /\ playlist_id' = id
         /\ \E srv \in Servers(id) : server' = srv
    /\ op' = "get_playlist"
    /\ offset' = 0
    /\ all_items' = <<>>
    /\ pc' = "loop"
    /\ UNCHANGED <<arg, playlist_data, result, requests, outstanding, nresponses,
                   received, arrived, first_total,
                   scriptVars>>

\* top of the while loop: the query is built and handed to _make_request
GetPlaylistRequest ==
    /\ pc = "loop"
    /\ op = "get_playlist"
    /\ Len(requests) < MaxRequests
    /\ requests' = Append(requests, PageRequest(playlist_id, offset))
    /\ outstanding' = outstanding + 1
    /\ pc' = "waiting"
    /\ UNCHANGED <<op, arg, playlist_id, offset, all_items, playlist_data, result,
                   server, nresponses, received, arrived, first_total,
                   scriptVars>>

\* the call ends: it returned r.val or raised r.exc
Finish(r) ==
    /\ result' = r
    /\ pc' = IF r.ok THEN "done" ELSE "raised"

\* the loop body after all_items.extend(items), and when the loop breaks the
\* rest of get_playlist
AfterExtend(pd, acc) ==
    /\ all_items' = acc
    /\ playlist_data' = pd
    /\ IF LoopDone(Len(acc), ContentOf(pd))
       THEN /\ Finish(BuildPlaylist(playlist_id, pd, acc))
            /\ offset' = offset
       ELSE /\ offset' = NextOffset(offset)
            /\ pc' = "loop"
            /\ result' = result

\* _make_request returned data
GetPlaylistPage(data) ==
    AfterExtend(PlaylistV2Of(data),
                Extend(all_items, ItemsOf(ContentOf(PlaylistV2Of(data)))))

\* the transport returns a 2xx body
Responded(body) ==
    /\ outstanding' = outstanding - 1
    /\ nresponses' = nresponses + 1
    /\ received' = [status |-> "ok", body |-> body]
    /\ arrived' = arrived \o SentItems(body)
    /\ first_total' = IF first_total = None
                      THEN Some(Get(ContentOf(PlaylistV2Of(body)), "totalCount", 0))
                      ELSE first_total

\* response.raise_for_status() raises inside _make_request
TransportFailed ==
    /\ outstanding' = outstanding - 1
    /\ nresponses' = nresponses + 1
    /\ received' = [status |-> "error", body |-> EmptyDict]
    /\ arrived' = arrived
    /\ first_total' = first_total

PagedServerResponds ==
    /\ pc = "waiting"
    /\ op = "get_playlist"
    /\ server.mode = "paged"
    /\ \E body \in {PagedBody(server, Last(requests).variables)} :
         Responded(body) /\ GetPlaylistPage(body)
    /\ UNCHANGED <<op, arg, playlist_id, server, requests, scriptVars>>

ArbitraryServerResponds ==
    /\ pc = "waiting"
    /\ op = "get_playlist"
    /\ server.mode = "arbitrary"
    /\ \E body \in ArbitraryBodies(server.meta, MaxItems - Len(arrived)) :
         Responded(body) /\ GetPlaylistPage(body)
    /\ UNCHANGED <<op, arg, playlist_id, server, requests, scriptVars>>

\* what get_playlist does with an exception of _make_request: it has no
\* handler, so the exception leaves get_playlist
GetPlaylistOnError(e) ==
    /\ Finish(Raise(e))
    /\ UNCHANGED <<offset, all_items, playlist_data>>

GetPlaylistTransportFails ==
    /\ pc = "waiting"
    /\ op = "get_playlist"
    /\ server.mode = "arbitrary"
    /\ TransportFailed
    /\ GetPlaylistOnError("HTTPError")
    /\ UNCHANGED <<op, arg, playlist_id, server, requests, scriptVars>>

\* get_profile / get_account_attributes build their query and hand it to
\* _make_request
PlainCall(method, name) ==
    /\ op' = method
    /\ server' = [mode |-> "arbitrary", total |-> 0, meta |-> EmptyDict]
    /\ requests' = Append(requests, PlainRequest(name))
    /\ outstanding' = outstanding + 1
    /\ pc' = "waiting"
    /\ UNCHANGED <<arg, playlist_id, offset, all_items, playlist_data, result,
                   nresponses, received, arrived, first_total,
                   scriptVars>>

\* the call ends with outcome r
PlainEnd(r) ==
    /\ Finish(r)
    /\ UNCHANGED <<op, arg, playlist_id, offset, all_items, playlist_data, server,
                   requests, scriptVars>>

GetProfileCall ==
    /\ pc = "idle"
    /\ PlainCall("get_profile", "profileAttributes")

\* get_profile, from the response to its return
GetProfile(response) == OrNone(TryProfile(Get(MeOf(response), "profile", EmptyDict)))

GetProfileResponds ==
    /\ pc = "waiting"
    /\ op = "get_profile"
    /\ \E response \in ProfileBodies :
         Responded(response) /\ PlainEnd(GetProfile(response))

GetProfileTransportFails ==
    /\ pc = "waiting"
    /\ op = "get_profile"
    /\ TransportFailed
    /\ PlainEnd(OrNone(Raise("HTTPError")))

GetAccountAttributesCall ==
    /\ pc = "idle"
    /\ PlainCall("get_account_attributes", "accountAttributes")

\* account_data = response.get("data", {}).get("me", {}).get("account", {})
AccountDataOf(response) == Get(MeOf(response), "account", EmptyDict)

\* get_account_attributes, from the response to its return
GetAccountAttributes(response) ==
    OrNone(TryAccount(AccountDataOf(response),
                      Get(AccountDataOf(response), "attributes", EmptyDict)))

GetAccountAttributesResponds ==
    /\ pc = "waiting"
    /\ op = "get_account_attributes"
    /\ \E response \in AccountBodies :
         Responded(response) /\ PlainEnd(GetAccountAttributes(response))

GetAccountAttributesTransportFails ==
    /\ pc = "waiting"
    /\ op = "get_account_attributes"
    /\ TransportFailed
    /\ PlainEnd(OrNone(Raise("HTTPError")))

\* a field extractor is applied to one payload
Extract(method, payload, r) ==
    /\ op' = method
    /\ arg' = payload
    /\ Finish(r)
    /\ UNCHANGED <<playlist_id, offset, all_items, playlist_data, server, requests,
                   outstanding, nresponses, received, arrived, first_total,
                   scriptVars>>

ParseTrackCall ==
    /\ pc = "idle"
    /\ \E track_data \in TrackPayloads :
         Extract("parse_track", track_data, ParseTrack(track_data))

ParseAlbumCall ==
    /\ pc = "idle"
    /\ \E album_data \in AlbumPayloads :
         Extract("parse_album", album_data, ParseAlbum(album_data))

ParseArtistCall ==
    /\ pc = "idle"
    /\ \E artist_data \in ArtistPayloads :
         Extract("parse_artist", artist_data, ParseArtist(artist_data))

ParseOwnerCall ==
    /\ pc = "idle"
    /\ \E owner_data \in OwnerPayloads :
         Extract("parse_owner", owner_data, Ok(ParseOwner(owner_data)))

ParseImagesCall ==
    /\ pc = "idle"
    /\ \E image_data \in SeqsUpTo(ImageDescriptors, MaxImages) :
         Extract("parse_images", image_data, Ok(ParseImages(image_data)))

----------------------------------------------------------------------------
(* The update scripts: main cleans the fetched tracks and interleaves the     *)
(* podcast episodes                                                          *)

\* str.startswith
StartsWith(str, prefix) ==
    Len(str) >= Len(prefix) /\ SubSeq(str, 1, Len(prefix)) = prefix

\* list.insert(i, x) for i >= 0
ListInsert(list, i, x) ==
    IF i >= Len(list)
    THEN Append(list, x)
    ELSE SubSeq(list, 1, i) \o <<x>> \o SubSeq(list, i + 1, Len(list))

\* min(a, b)
Min(a, b) == IF a <= b THEN a ELSE b

\* the gap does not grow with idx
NextPodcastIdx_fixedGap(p, i) == p + 1 + 4

\* podcast_idx += (idx + 1) + 4
NextPodcastIdx(p, i) == p + (i + 1) + 4

\* [track["uri"] for track in clean_playlist]
UrisOf(list) == [i \in 1..Len(list) |-> list[i]["uri"]]

\* playlist items: the i-th is a music track, or an episode when i = d
TrackItem(i, d) ==
    [track |-> [uri |-> Uri(IF i = d THEN "episode" ELSE "track", ToString(i)),
                name |-> <<"T">>]]

TrackLists ==
    {[i \in 1..n |-> TrackItem(i, d)] : n \in 0..MaxTracks, d \in 0..MaxTracks}

\* the latest episodes of the shows
PodcastEpisode(k) ==
    [uri |-> Uri("episode", ToString(100 + k)), release_date |-> <<"2026-11-03">>]

PodcastLists == {[k \in 1..n |-> PodcastEpisode(k)] : n \in 0..MaxPodcasts}

\* main has its tracks and podcasts: clean_playlist = []
MainCall ==
    /\ pc = "idle"
    /\ \E ts \in TrackLists : main_tracks' = ts
    /\ \E ps \in PodcastLists : podcasts' = ps
    /\ op' = "main"
    /\ clean_playlist' = <<>>
    /\ cursor' = 0
    /\ pc' = "clean"
    /\ UNCHANGED <<clientVars, podcast_idx, idx, replace_items>>

\* one iteration of: for track in tracks
MainClean ==
    /\ pc = "clean"
    /\ cursor < Len(main_tracks)
    /\ cursor' = cursor + 1
    /\ clean_playlist' =
          IF StartsWith(main_tracks[cursor + 1]["track"]["uri"], <<"spotify", ":", "track", ":">>)
          THEN Append(clean_playlist, main_tracks[cursor + 1]["track"])
          ELSE clean_playlist
    /\ UNCHANGED <<pc, op, clientVars, main_tracks, podcasts, podcast_idx, idx, replace_items>>

\* the cleaning loop is over: podcast_idx = 0
MainCleaned ==
    /\ pc = "clean"
    /\ cursor = Len(main_tracks)
    /\ podcast_idx' = 0
    /\ idx' = 0
    /\ pc' = "interleave"
    /\ UNCHANGED <<op, clientVars, main_tracks, podcasts, cursor, clean_playlist,
                   replace_items>>

\* one iteration of: for idx, podcast in enumerate(podcasts)
MainInsert ==
    /\ pc = "interleave"
    /\ idx < Len(podcasts)
    /\ clean_playlist' = ListInsert(clean_playlist,
                                    Min(Len(clean_playlist), podcast_idx),
                                    podcasts[idx + 1])
    /\ podcast_idx' = NextPodcastIdx(podcast_idx, idx)
    /\ idx' = idx + 1
    /\ UNCHANGED <<pc, op, clientVars, main_tracks, podcasts, cursor, replace_items>>

\* sp.playlist_replace_items(my_daily_drive_id, [uris of clean_playlist])
MainReplaceItems ==
    /\ pc = "interleave"
    /\ idx = Len(podcasts)
    /\ replace_items' = Some(UrisOf(clean_playlist))
    /\ pc' = "replaced"
    /\ UNCHANGED <<op, clientVars, main_tracks, podcasts, cursor, clean_playlist,
                   podcast_idx, idx>>

Next ==
    \/ GetPlaylistCall
    \/ GetPlaylistRequest
    \/ PagedServerResponds
    \/ ArbitraryServerResponds
    \/ GetPlaylistTransportFails
    \/ GetProfileCall
    \/ GetProfileResponds
    \/ GetProfileTransportFails
    \/ GetAccountAttributesCall
    \/ GetAccountAttributesResponds
    \/ GetAccountAttributesTransportFails
    \/ ParseTrackCall
    \/ ParseAlbumCall
    \/ ParseArtistCall
    \/ ParseOwnerCall
    \/ ParseImagesCall
    \/ MainCall
    \/ MainClean
    \/ MainCleaned
    \/ MainInsert
    \/ MainReplaceItems

Spec == Init /\ [][Next]_vars

----------------------------------------------------------------------------
(* What the claims speak of, stated without the operators of the model *)

\* the final colon-delimited segment of a string
FinalSegment(str) ==
    LET colons == {i \in 1..Len(str) : str[i] = ":"}
        from == IF colons = {} THEN 0 ELSE CHOOSE i \in colons : \A j \in colons : j <= i
    IN  SubSeq(str, from + 1, Len(str))

\* ceil(a / b)
CeilDiv(a, b) == (a + b - 1) \div b

IsGetPlaylist == op = "get_playlist"

Returned == pc = "done"

Ended == pc \in {"done", "raised"}

\* the offsets of the page requests issued so far, in order
Offsets == [k \in 1..Len(requests) |-> requests[k].variables.offset]

ArtistComplete(a) == Has(a, "uri") /\ Has(a, "profile") /\ Has(a["profile"], "name")

ArtistsComplete(d) ==
    /\ Has(d, "items")
    /\ \A i \in 1..Len(d["items"]) : ArtistComplete(d["items"][i])

AlbumComplete(a) ==
    /\ Has(a, "uri")
    /\ Has(a, "name")
    /\ Has(a, "artists")
    /\ ArtistsComplete(a["artists"])
    /\ Has(a, "coverArt")
    /\ Has(a["coverArt"], "sources")

HasDuration(d, key) == Has(d, key) /\ Has(d[key], "totalMilliseconds")

\* a track payload with every required field of track, album and artist
TrackComplete(d) ==
    /\ Has(d, "uri")
    /\ Has(d, "name")
    /\ IF Has(d, "trackDuration") THEN HasDuration(d, "trackDuration")
       ELSE HasDuration(d, "episodeDuration")
    /\ Has(d, "artists") => ArtistsComplete(d["artists"])
    /\ Has(d, "albumOfTrack") => AlbumComplete(d["albumOfTrack"])

\* a raw playlist item with every required field
ItemComplete(item) ==
    /\ Has(item, "itemV2")
    /\ Has(item["itemV2"], "data")
    /\ TrackComplete(item["itemV2"]["data"])

----------------------------------------------------------------------------
(* C1 *)

\* C1: with a well-behaved server (every response reports the same
\* totalCount T >= 1 and the request at offset o returns items
\* o .. min(o+50, T)-1) get_playlist issues exactly ceil(T/50) page requests,
\* at offsets 0, 50, 100, ... in that order, accumulates exactly the T items
\* and never holds more than T of them.
C1_PagedFetch ==
    (IsGetPlaylist /\ server.mode = "paged") =>
        /\ Len(all_items) <= server.total
        /\ Len(requests) <= CeilDiv(server.total, 50)
        /\ Offsets = [k \in 1..Len(requests) |-> 50 * (k - 1)]
        /\ all_items = [i \in 1..Len(all_items) |-> PagedItem(i - 1)]
        /\ pc = "loop" => Len(requests) < CeilDiv(server.total, 50)
        /\ Ended =>
            /\ Returned
            /\ Len(requests) = CeilDiv(server.total, 50)
            /\ Len(all_items) = server.total
            /\ Len(result.val.tracks) = server.total

\* T = 120: three requests, at offsets 0, 50 and 100, and 120 items returned
C1_Witness ==
    /\ IsGetPlaylist
    /\ server.mode = "paged"
    /\ server.total = 120
    /\ Returned
    /\ Offsets = <<0, 50, 100>>
    /\ Len(result.val.tracks) = 120

----------------------------------------------------------------------------
(* C2 *)

\* the last response added nothing to all_items although it came back 2xx
LastPageAddedNothing == received.status = "ok" /\ SentItems(received.body) = <<>>

\* C2: the pagination loop is guarded against a server whose totalCount stays
\* out of reach: once a page has left the accumulated count where it was, the
\* loop aborts instead of issuing the next page request.
C2_LoopGuarded ==
    (IsGetPlaylist /\ pc = "waiting" /\ Len(requests) > 1) => ~LastPageAddedNothing

----------------------------------------------------------------------------
(* C10 *)

\* C10: the page requests of one get_playlist call are strictly sequential
\* whatever the server does: at most one is outstanding, request k is issued
\* only after the response to request k-1 was received and its items
\* appended, and it carries limit 50 and offset 50*(k-1).
C10_Sequential ==
    IsGetPlaylist =>
        /\ outstanding \in {0, 1}
        /\ outstanding = 1 <=> pc = "waiting"
        /\ Len(requests) = nresponses + outstanding
        /\ all_items = arrived
        /\ \A k \in 1..Len(requests) :
             /\ requests[k].operationName = "fetchPlaylist"
             /\ requests[k].variables.limit = 50
             /\ requests[k].variables.offset = 50 * (k - 1)

\* the third request of a call is outstanding, after two pages that brought
\* items from a server that is not the well-behaved one
C10_Witness ==
    /\ IsGetPlaylist
    /\ server.mode = "arbitrary"
    /\ pc = "waiting"
    /\ Len(requests) = 3
    /\ Len(all_items) = 2
    /\ all_items[1] /= all_items[2]

----------------------------------------------------------------------------
(* C5 *)

\* C5: Playlist.tracks of a successful get_playlist has exactly one entry per
\* item received, in arrival order; tracks[i].track.id is the final
\* colon-delimited segment of the i-th received item's URI, tracks[i].added_at
\* comes from that same item, added_by is unset and is_local is false.
C5_TracksInArrivalOrder ==
    (IsGetPlaylist /\ Returned) =>
        /\ Len(result.val.tracks) = Len(arrived)
        /\ \A i \in 1..Len(arrived) :
             /\ result.val.tracks[i].track.id
                    = FinalSegment(arrived[i]["itemV2"]["data"]["uri"])
             /\ result.val.tracks[i].track.uri = arrived[i]["itemV2"]["data"]["uri"]
             /\ result.val.tracks[i].added_at
                    = (IF Has(arrived[i], "addedAt") /\ Has(arrived[i]["addedAt"], "isoString")
                       THEN arrived[i]["addedAt"]["isoString"] ELSE <<>>)
             /\ result.val.tracks[i].added_by = <<>>
             /\ result.val.tracks[i].is_local = FALSE

\* a playlist returned from two pages of one item each, the items distinct
C5_Witness ==
    /\ IsGetPlaylist
    /\ Returned
    /\ server.mode = "arbitrary"
    /\ nresponses = 2
    /\ Len(arrived) = 2
    /\ SentItems(received.body) = <<arrived[2]>>
    /\ arrived[1]["itemV2"]["data"]["uri"] /= arrived[2]["itemV2"]["data"]["uri"]

----------------------------------------------------------------------------
(* C4 *)

\* the extractors get_playlist runs on every item raise a lookup error on
\* exactly the payloads that lack a required field
C4_ExtractorsStrict ==
    /\ (op = "parse_track" /\ Ended) =>
          /\ Returned <=> TrackComplete(arg)
          /\ pc = "raised" => result.exc = "KeyError"
    /\ (op = "parse_album" /\ Ended) =>
          /\ Returned <=> AlbumComplete(arg)
          /\ pc = "raised" => result.exc = "KeyError"
    /\ (op = "parse_artist" /\ Ended) =>
          /\ Returned <=> ArtistComplete(arg)
          /\ pc = "raised" => result.exc = "KeyError"

\* C4: get_playlist fails loudly and atomically. A transport failure on any
\* page request leaves get_playlist as an error, with no Playlist and no
\* further page request; when the loop has ended, a Playlist is returned only
\* if every accumulated item has the required fields of track, album and
\* artist, and otherwise a lookup error leaves get_playlist. Nothing is
\* returned before the call has ended.
C4_FailsLoudly ==
    /\ C4_ExtractorsStrict
    /\ IsGetPlaylist =>
        /\ received.status = "error" =>
             /\ pc = "raised"
             /\ result = [ok |-> FALSE, exc |-> "HTTPError", key |-> ""]
             /\ outstanding = 0
             /\ Len(requests) = nresponses
        /\ Returned =>
             /\ result.ok
             /\ \A i \in 1..Len(all_items) : ItemComplete(all_items[i])
        /\ (pc = "raised" /\ received.status = "ok") =>
             /\ ~result.ok
             /\ result.exc = "KeyError"
             /\ \E i \in 1..Len(all_items) : ~ItemComplete(all_items[i])
        /\ ~Ended => result = NoResult

\* the second page brought an item without a required field after a first
\* page with a sound item: a KeyError and no Playlist
C4_Witness ==
    /\ IsGetPlaylist
    /\ pc = "raised"
    /\ result.exc = "KeyError"
    /\ nresponses = 2
    /\ Len(all_items) = 2
    /\ ItemComplete(all_items[1])
    /\ ~ItemComplete(all_items[2])

----------------------------------------------------------------------------
(* C3 *)

\* data.me.<key> of a response body is a non-empty mapping
MeHas(body, key) ==
    /\ Has(body, "data")
    /\ Has(body["data"], "me")
    /\ Has(body["data"]["me"], key)
    /\ body["data"]["me"][key] /= <<>>

\* key is present in the mapping and not empty
Filled(d, key) == Has(d, key) /\ d[key] /= <<>>

AccountUsable(body) ==
    /\ MeHas(body, "account")
    /\ Filled(body["data"]["me"]["account"], "attributes")
    /\ Filled(body["data"]["me"]["account"], "country")
    /\ Filled(body["data"]["me"]["account"], "product")

\* C3: get_profile and get_account_attributes never raise and make exactly
\* one request. get_profile returns none when the transport fails or
\* data.me.profile is empty or absent, get_account_attributes when the
\* transport fails or attributes, country or product is missing or empty; in
\* every other case a record populated from the response is returned.
C3_OptionalFetches ==
    /\ (op \in {"get_profile", "get_account_attributes"}) =>
          /\ pc /= "raised"
          /\ Len(requests) = 1
          /\ Returned => (result.ok /\ nresponses = 1 /\ Len(result.val) <= 1)
    /\ (op = "get_profile" /\ Returned) =>
          /\ result.val = <<>>
                <=> (received.status = "error" \/ ~MeHas(received.body, "profile"))
          /\ result.val /= <<>> =>
                LET p == received.body["data"]["me"]["profile"]
                IN  /\ result.val[1].name = (IF Has(p, "name") THEN p["name"] ELSE <<>>)
                    /\ result.val[1].uri = (IF Has(p, "uri") THEN p["uri"] ELSE <<>>)
                    /\ result.val[1].username
                          = (IF Has(p, "username") THEN p["username"] ELSE <<>>)
    /\ (op = "get_account_attributes" /\ Returned) =>
          /\ result.val = <<>>
                <=> (received.status = "error" \/ ~AccountUsable(received.body))
          /\ result.val /= <<>> =>
                /\ result.val[1].country = received.body["data"]["me"]["account"]["country"]
                /\ result.val[1].product = received.body["data"]["me"]["account"]["product"]

\* get_profile returned none on the response {"data": {"me": {}}}
C3_Witness ==
    /\ op = "get_profile"
    /\ Returned
    /\ received = [status |-> "ok", body |-> [data |-> [me |-> <<>>]]]
    /\ result = [ok |-> TRUE, val |-> <<>>]

----------------------------------------------------------------------------
(* C6 *)

IdFromUri(e) == e.id = FinalSegment(e.uri)

AllIdFromUri(es) == \A i \in 1..Len(es) : IdFromUri(es[i])

AlbumIdsFromUri(a) == IdFromUri(a) /\ AllIdFromUri(a.artists)

TrackIdsFromUri(t) ==
    /\ IdFromUri(t)
    /\ AllIdFromUri(t.artists)
    /\ \A i \in 1..Len(t.album) : AlbumIdsFromUri(t.album[i])

\* C6: in every entity the parsing layer produces (Artist, Album, Track,
\* Owner and the Playlist get_playlist returns) id is the final
\* colon-delimited segment of that entity's uri.
C6_IdIsFinalSegment ==
    Returned =>
        /\ op = "parse_artist" => IdFromUri(result.val)
        /\ op = "parse_album" => AlbumIdsFromUri(result.val)
        /\ op = "parse_track" => TrackIdsFromUri(result.val)
        /\ op = "parse_owner" => AllIdFromUri(result.val)
        /\ op = "get_playlist" =>
             /\ AllIdFromUri(result.val.owner)
             /\ \A i \in 1..Len(result.val.tracks) :
                  TrackIdsFromUri(result.val.tracks[i].track)
             /\ IdFromUri(result.val)

----------------------------------------------------------------------------
(* C7 *)

\* C7: no Track that parse_track returns has an album together with a
\* duration read from episodeDuration (no trackDuration key in the payload).
C7_NoAlbumOnEpisodeDuration ==
    (op = "parse_track" /\ Returned /\ ~Has(arg, "trackDuration")) =>
        result.val.album = <<>>

----------------------------------------------------------------------------
(* C8 *)

\* d[key].totalMilliseconds, when there is one
Milliseconds(d, key) ==
    IF HasDuration(d, key) THEN <<d[key]["totalMilliseconds"]>> ELSE <<>>

\* C8: parse_track takes duration_ms from trackDuration.totalMilliseconds when
\* the trackDuration key is present (also when episodeDuration is present
\* too), otherwise from episodeDuration.totalMilliseconds, and fails with a
\* lookup error when neither key is present; explicit is false when absent,
\* artists is the empty list when the artists key is absent and album is
\* none when albumOfTrack is absent.
C8_TrackByKeyPresence ==
    (op = "parse_track" /\ Ended) =>
        /\ (~Has(arg, "trackDuration") /\ ~Has(arg, "episodeDuration")) =>
              (pc = "raised" /\ result.exc = "KeyError")
        /\ Returned =>
              /\ <<result.val.duration_ms>>
                    = (IF Has(arg, "trackDuration")
                       THEN Milliseconds(arg, "trackDuration")
                       ELSE Milliseconds(arg, "episodeDuration"))
              /\ ~Has(arg, "explicit") => result.val.explicit = FALSE
              /\ Has(arg, "explicit") => result.val.explicit = arg["explicit"]
              /\ ~Has(arg, "artists") => result.val.artists = <<>>
              /\ ~Has(arg, "albumOfTrack") => result.val.album = <<>>
              /\ Has(arg, "albumOfTrack") => Len(result.val.album) = 1

\* both duration keys present: the track duration wins
C8_Witness ==
    /\ op = "parse_track"
    /\ Returned
    /\ Has(arg, "trackDuration")
    /\ Has(arg, "episodeDuration")
    /\ arg["episodeDuration"] = [totalMilliseconds |-> 5000]
    /\ result.val.duration_ms = 1000
    /\ ~Has(arg, "artists")
    /\ ~Has(arg, "albumOfTrack")

----------------------------------------------------------------------------
(* C9 *)

\* the positions of the descriptors that have a non-empty sources list
WithSources(ds) == {i \in 1..Len(ds) : Has(ds[i], "sources") /\ ds[i]["sources"] /= <<>>}

\* how many of them are at or before position i
Rank(ds, i) == Cardinality({j \in WithSources(ds) : j <= i})

OptField(d, k) == IF Has(d, k) THEN <<d[k]>> ELSE <<>>

\* images is what parse_images is to yield for the descriptors ds
ImagesMatch(ds, images) ==
    /\ Len(images) = Cardinality(WithSources(ds))
    /\ Len(images) <= Len(ds)
    /\ \A i \in WithSources(ds) :
         images[Rank(ds, i)] = [url |-> OptField(ds[i]["sources"][1], "url"),
                                height |-> OptField(ds[i]["sources"][1], "height"),
                                width |-> OptField(ds[i]["sources"][1], "width")]

\* C9: parse_images returns exactly one Image per descriptor whose sources
\* list is non-empty, built from that descriptor's sources[0] only, in input
\* order; descriptors with empty or missing sources contribute nothing. The
\* same holds of the descriptors parse_album hands over (coverArt.sources).
C9_ImagesFirstSource ==
    /\ (op = "parse_images" /\ Returned) => ImagesMatch(arg, result.val)
    /\ (op = "parse_album" /\ Returned) =>
          ImagesMatch(arg["coverArt"]["sources"], result.val.images)

\* three descriptors, the middle one without sources, the last with two
C9_Witness ==
    /\ op = "parse_images"
    /\ Returned
    /\ Len(arg) = 3
    /\ WithSources(arg) = {1, 3}
    /\ Len(arg[3]["sources"]) = 2
    /\ Len(result.val) = 2

----------------------------------------------------------------------------
(* C11 *)

\* totalCount as a response body reports it, 0 when it reports none
ReportedTotal(body) ==
    IF /\ Has(body, "data")
       /\ Has(body["data"], "playlistV2")
       /\ Has(body["data"]["playlistV2"], "content")
       /\ Has(body["data"]["playlistV2"]["content"], "totalCount")
    THEN body["data"]["playlistV2"]["content"]["totalCount"]
    ELSE 0

\* a page has just been taken in: the loop went on or was left
PageTakenIn ==
    IsGetPlaylist /\ received.status = "ok" /\ pc \in {"loop", "done", "raised"}

\* C11 as claimed: after every page the loop goes on exactly when the
\* accumulated length is below the totalCount the first response reported,
\* whatever totalCount the later pages report.
C11_StopByFirstTotal ==
    PageTakenIn => ((pc = "loop") <=> (Len(all_items) < first_total[1]))

\* C11 as amended: after every page the loop goes on exactly when the
\* accumulated length is below the totalCount that same page reported (0 when
\* it reported none), whatever the first page reported.
C11_StopByLatestTotal ==
    PageTakenIn => ((pc = "loop") <=> (Len(all_items) < ReportedTotal(received.body)))

\* the second page reported a smaller totalCount than the first and the loop
\* was left below the first page's totalCount
C11_Witness ==
    /\ IsGetPlaylist
    /\ Returned
    /\ nresponses = 2
    /\ ReportedTotal(received.body) < first_total[1]
    /\ Len(all_items) < first_total[1]
    /\ Len(result.val.tracks) = 2

----------------------------------------------------------------------------
(* C12 *)

\* a uri of the form spotify:track:...
IsMusicUri(uri) ==
    Len(uri) >= 4 /\ uri[1] = "spotify" /\ uri[2] = ":" /\ uri[3] = "track" /\ uri[4] = ":"

IsMusicItem(item) == IsMusicUri(item.track.uri)

\* the uris of the music tracks among main's tracks, in their order
MusicUris ==
    [i \in 1..Len(SelectSeq(main_tracks, IsMusicItem)) |->
        SelectSeq(main_tracks, IsMusicItem)[i].track.uri]

\* where the k-th episode (k from 0) ends among m music tracks
EpisodeIndex(m, k) ==
    IF m + k <= (k * (k + 9)) \div 2 THEN m + k ELSE (k * (k + 9)) \div 2

\* how often x occurs in list
Occurrences(list, x) == Cardinality({i \in 1..Len(list) : list[i] = x})

\* the episodes inserted so far sit at their indices among m music tracks
EpisodesPlaced(m) ==
    /\ Len(clean_playlist) = m + idx
    /\ \A k \in 0..(idx - 1) :
          clean_playlist[EpisodeIndex(m, k) + 1] = podcasts[k + 1]

\* out is the m music tracks and the n episodes interleaved
Interleaved(out, m, n) ==
    /\ Len(out) = m + n
    /\ SelectSeq(out, IsMusicUri) = MusicUris
    /\ \A i \in 1..m : Occurrences(out, MusicUris[i]) = 1
    /\ \A k \in 0..(n - 1) :
          /\ out[EpisodeIndex(m, k) + 1] = podcasts[k + 1].uri
          /\ Occurrences(out, podcasts[k + 1].uri) = 1
    /\ \A j, k \in 0..(n - 1) : j < k => EpisodeIndex(m, j) < EpisodeIndex(m, k)

\* C12: for m cleaned music tracks and n episodes the list handed to
\* playlist_replace_items has length m+n, holds every music track once in its
\* original order and every episode once in podcast order, the k-th episode
\* at index min(m+k, k*(k+9)/2); during the insertions every episode already
\* inserted stays at that index.
C12_Interleaving ==
    /\ (op = "main" /\ pc \in {"interleave", "replaced"}) =>
          EpisodesPlaced(Len(MusicUris))
    /\ (op = "main" /\ pc = "replaced") =>
          Interleaved(replace_items[1], Len(MusicUris), Len(podcasts))

\* four episodes went into fifteen music tracks, cleaned out of sixteen items,
\* and ended at 0, 5, 11 and 18
C12_Witness ==
    /\ op = "main"
    /\ pc = "replaced"
    /\ Len(main_tracks) = 16
    /\ Len(MusicUris) = 15
    /\ Len(podcasts) = 4
    /\ \A k \in 0..3 :
          replace_items[1][<<0, 5, 11, 18>>[k + 1] + 1] = podcasts[k + 1].uri

====
